---------------------------- MODULE Spec2Model ----------------------------
(***************************************************************************)
(* Model of the verification engine of src/verification: the case record, *)
(* the four signal evaluators and the age evaluator, the decision          *)
(* resolver (run_full_evaluation), the policy simulator                    *)
(* (simulate_decision) and the views that drive them (start_verification,  *)
(* rerun_case, review_case, risk_tuning).                                  *)
(*                                                                         *)
(* Text the code inspects (document number, name, email) is a sequence of  *)
(* one-character strings, so that len(), endswith(), lower() and "in" are  *)
(* computed.  Text the code only builds (reasons, risk summary) is a       *)
(* string.  Dates are records [year, month, day].                          *)
(***************************************************************************)
EXTENDS Integers, Sequences, FiniteSets, TLC

VARIABLES
    cases,      \* the VerificationCase table: row pk is cases[pk]
    audit,      \* the AuditEvent table, in insertion order
    today,      \* the current date (date.today(), timezone.now().date())
    op,         \* the handler that ran last
    obj,        \* the VerificationCase instance that handler held
    preview,    \* the preview risk_tuning rendered last, or NoPreview
    inflight    \* the requests being served concurrently: view, input, position, instance

vars == <<cases, audit, today, op, obj, preview, inflight>>

-----------------------------------------------------------------------------
(* Bounds of the model. *)

\* AuditEvents the store may hold; every create, rerun and review logs one.
MaxEvents == 3
\* Days the clock may advance past FirstDay.
MaxTicks == 1
\* Largest attempt_count a form may submit.
MaxAttempts == 6

-----------------------------------------------------------------------------
(* Text helpers. *)

UPPER == <<"A","B","C","D","E","F","G","H","I","J","K","L","M",
           "N","O","P","Q","R","S","T","U","V","W","X","Y","Z">>
LOWER == <<"a","b","c","d","e","f","g","h","i","j","k","l","m",
           "n","o","p","q","r","s","t","u","v","w","x","y","z">>

\* str.lower() on one character, as a table over the upper-case letters.
LOWER_OF ==
    [ c \in { UPPER[i] : i \in DOMAIN UPPER } |->
        LOWER[CHOOSE i \in DOMAIN UPPER : UPPER[i] = c] ]

LowerChar(c) == IF c \in DOMAIN LOWER_OF THEN LOWER_OF[c] ELSE c

\* str.lower()
Lower(s) == [i \in DOMAIN s |-> LowerChar(s[i])]

\* str.endswith(suffix)
EndsWith(s, suffix) ==
    /\ Len(s) >= Len(suffix)
    /\ SubSeq(s, Len(s) - Len(suffix) + 1, Len(s)) = suffix

\* token in s
Contains(s, token) ==
    \E i \in 1..(Len(s) - Len(token) + 1) : SubSeq(s, i, i + Len(token) - 1) = token

Digits == <<"0","1","2","3","4","5","6","7","8","9">>

\* str(n), as an f-string renders an int.
RECURSIVE Str(_)
Str(n) ==
    IF n < 0 THEN "-" \o Str(-n)
    ELSE IF n < 10 THEN Digits[n + 1]
    ELSE Str(n \div 10) \o Digits[(n % 10) + 1]

\* sep.join(items)
RECURSIVE Join(_, _)
Join(sep, items) ==
    IF Len(items) = 0 THEN ""
    ELSE IF Len(items) = 1 THEN items[1]
    ELSE items[1] \o sep \o Join(sep, Tail(items))

Max2(a, b) == IF a >= b THEN a ELSE b
Min2(a, b) == IF a <= b THEN a ELSE b

\* [x for x in items if keep(x)], items a sequence.
RECURSIVE SelectKeys(_, _)
SelectKeys(items, d) ==
    IF Len(items) = 0 THEN <<>>
    ELSE (IF items[1] \in DOMAIN d /\ d[items[1]] = TRUE THEN <<items[1]>> ELSE <<>>)
         \o SelectKeys(Tail(items), d)

-----------------------------------------------------------------------------
(* Dates. *)

Date(y, m, d) == [year |-> y, month |-> m, day |-> d]

\* a <= b on datetime.date
DateLE(a, b) ==
    \/ a.year < b.year
    \/ a.year = b.year /\ a.month < b.month
    \/ a.year = b.year /\ a.month = b.month /\ a.day <= b.day

\* (m1, d1) < (m2, d2), the tuple comparison of evaluate_age
MonthDayLT(a, b) ==
    \/ a.month < b.month
    \/ a.month = b.month /\ a.day < b.day

\* NULL in a DateTimeField
NoDate == Date(0, 0, 0)

FirstDay == Date(2026, 3, 9)


-----------------------------------------------------------------------------
(* The case record. *)

STATUS_PENDING  == "pending"
STATUS_REVIEW   == "needs_review"
STATUS_APPROVED == "approved"
STATUS_REJECTED == "rejected"

STATUS_CHOICES == {STATUS_PENDING, STATUS_REVIEW, STATUS_APPROVED, STATUS_REJECTED}

\* VerificationCase(**payload): the declared attributes as given, every other
\* field at its default, no primary key yet (pk = 0 stands for None).
NewCase(payload) ==
    [ pk                     |-> 0,
      full_name              |-> payload.full_name,
      email                  |-> payload.email,
      country                |-> payload.country,
      issuing_country        |-> payload.issuing_country,
      document_number        |-> payload.document_number,
      date_of_birth          |-> payload.date_of_birth,
      doc_expiry             |-> payload.doc_expiry,
      ip_country             |-> payload.ip_country,
      device_fingerprint     |-> payload.device_fingerprint,
      attempt_count          |-> payload.attempt_count,
      selfie_quality         |-> payload.selfie_quality,
      doc_authenticity_score |-> 0,
      face_match_score       |-> 0,
      liveness_passed        |-> FALSE,
      fraud_risk_score       |-> 0,
      fraud_signals          |-> <<>>,
      aml_findings           |-> <<>>,
      age_verified           |-> FALSE,
      status                 |-> STATUS_PENDING,
      risk_summary           |-> "",
      reviewer_name          |-> "",
      reviewer_notes         |-> "",
      reviewed_at            |-> NoDate ]

\* The fields run_full_evaluation writes.
Derived(c) ==
    [ doc_authenticity_score |-> c.doc_authenticity_score,
      face_match_score       |-> c.face_match_score,
      liveness_passed        |-> c.liveness_passed,
      fraud_risk_score       |-> c.fraud_risk_score,
      fraud_signals          |-> c.fraud_signals,
      aml_findings           |-> c.aml_findings,
      age_verified           |-> c.age_verified,
      status                 |-> c.status,
      risk_summary           |-> c.risk_summary ]

\* dict.get(key) taken as a truth value; {} has no keys.
GetTruthy(d, key) == key \in DOMAIN d /\ d[key] = TRUE

\* Model.save(): INSERT with the next auto-increment key when the instance has
\* none, UPDATE of its row otherwise.  The result is the instance and the table.
save(self, db) ==
    IF self.pk = 0
    THEN LET saved == [self EXCEPT !.pk = Len(db) + 1]
         IN  [self |-> saved, db |-> Append(db, saved)]
    ELSE [self |-> self, db |-> [db EXCEPT ![self.pk] = self]]

-----------------------------------------------------------------------------
(* The evaluators. *)

\* Faulty variant of evaluate_document: a document expiring today is not expired.
evaluate_document_ExpiryStrict(self, now) ==
    LET short    == Len(self.document_number) < 6
        expired  == DateLE(self.doc_expiry, now) /\ self.doc_expiry # now
        mismatch == /\ self.country # ""
                    /\ self.issuing_country # ""
                    /\ self.country # self.issuing_country
        score    == 92 - (IF short THEN 22 ELSE 0)
                       - (IF expired THEN 35 ELSE 0)
                       - (IF mismatch THEN 10 ELSE 0)
        flags    == (IF short THEN <<"Document number is shorter than expected">> ELSE <<>>)
                    \o (IF expired THEN <<"Document expired">> ELSE <<>>)
                    \o (IF mismatch
                        THEN <<"Residence country differs from issuing country">>
                        ELSE <<>>)
    IN  [score |-> Max2(score, 0), flags |-> flags]

evaluate_document(self, now) ==
    LET short    == Len(self.document_number) < 6
        expired  == DateLE(self.doc_expiry, now)
        mismatch == /\ self.country # ""
                    /\ self.issuing_country # ""
                    /\ self.country # self.issuing_country
        score    == 92 - (IF short THEN 22 ELSE 0)
                       - (IF expired THEN 35 ELSE 0)
                       - (IF mismatch THEN 10 ELSE 0)
        flags    == (IF short THEN <<"Document number is shorter than expected">> ELSE <<>>)
                    \o (IF expired THEN <<"Document expired">> ELSE <<>>)
                    \o (IF mismatch
                        THEN <<"Residence country differs from issuing country">>
                        ELSE <<>>)
    IN  [score |-> Max2(score, 0), flags |-> flags]

\* Faulty variant of IntBase: round() in place of int().
IntBase_Rounded(selfie_quality, doc_score) ==
    (6 * selfie_quality + 4 * doc_score + 5) \div 10

\* int(selfie_quality * 0.6 + doc_authenticity_score * 0.4).  The float sum
\* truncates to (6 s + 4 d) \div 10 for every selfie quality 0..300 and every
\* score evaluate_document can return (25, 35, 47, 57, 60, 70, 82, 92).
IntBase(selfie_quality, doc_score) == (6 * selfie_quality + 4 * doc_score) \div 10

\* Faulty variant of evaluate_biometrics: the floor of 30 is missing.
evaluate_biometrics_NoFloor(self) ==
    LET base       == IntBase(self.selfie_quality, self.doc_authenticity_score)
        face_match == Min2(base, 100)
        liveness   == self.selfie_quality >= 55 /\ self.attempt_count <= 4
        reasons    == (IF ~liveness
                       THEN <<"Motion / liveness confidence below threshold">>
                       ELSE <<>>)
                      \o (IF face_match < 65
                          THEN <<"Face match below recommended threshold">>
                          ELSE <<>>)
    IN  [face_match |-> face_match, liveness_passed |-> liveness, reasons |-> reasons]

evaluate_biometrics(self) ==
    LET base       == IntBase(self.selfie_quality, self.doc_authenticity_score)
        face_match == Max2(30, Min2(base, 100))
        liveness   == self.selfie_quality >= 55 /\ self.attempt_count <= 4
        reasons    == (IF ~liveness
                       THEN <<"Motion / liveness confidence below threshold">>
                       ELSE <<>>)
                      \o (IF face_match < 65
                          THEN <<"Face match below recommended threshold">>
                          ELSE <<>>)
    IN  [face_match |-> face_match, liveness_passed |-> liveness, reasons |-> reasons]

\* Faulty variant of ReuseCount: the exclude(pk=self.pk) is missing.
ReuseCount_CountingSelf(self, db) ==
    Cardinality({ k \in DOMAIN db :
                    db[k].device_fingerprint = self.device_fingerprint })

\* Faulty variant of ReuseCount: the case is taken out by subtracting one from
\* the count of all rows, stored or not.
ReuseCount_MinusSelf(self, db) ==
    Max2(0, Cardinality({ k \in DOMAIN db :
                            db[k].device_fingerprint = self.device_fingerprint }) - 1)

\* VerificationCase.objects.filter(device_fingerprint=...).exclude(pk=self.pk).count()
\* exclude(pk=None) excludes no row.
ReuseCount(self, db) ==
    Cardinality({ k \in DOMAIN db :
                    /\ db[k].device_fingerprint = self.device_fingerprint
                    /\ k # self.pk })

\* Faulty variant of evaluate_fraud: the attempts penalty is subtracted.
evaluate_fraud_PenaltySubtracted(self, db) ==
    LET geo     == /\ self.ip_country # ""
                   /\ self.country # ""
                   /\ self.ip_country # self.country
        many    == self.attempt_count > 2
        extra   == Min2(25, (self.attempt_count - 1) * 6)
        reused  == IF self.device_fingerprint # "" THEN ReuseCount(self, db) ELSE 0
        lowdoc  == self.doc_authenticity_score < 60
        risk    == 10 + (IF geo THEN 18 ELSE 0)
                      - (IF many THEN extra ELSE 0)
                      + (IF reused # 0 THEN 22 ELSE 0)
                      + (IF lowdoc THEN 14 ELSE 0)
        signals == (IF geo THEN <<"IP geolocation differs from claimed country">> ELSE <<>>)
                   \o (IF many
                       THEN <<Str(self.attempt_count) \o " capture attempts in session">>
                       ELSE <<>>)
                   \o (IF reused # 0
                       THEN <<"Device fingerprint seen in " \o Str(reused) \o " other case(s)">>
                       ELSE <<>>)
                   \o (IF lowdoc THEN <<"Low document security score">> ELSE <<>>)
    IN  [risk |-> Min2(risk, 100), signals |-> signals]

\* Faulty variant of evaluate_fraud: a document score of exactly 60 counts as low.
evaluate_fraud_LowDocInclusive(self, db) ==
    LET geo     == /\ self.ip_country # ""
                   /\ self.country # ""
                   /\ self.ip_country # self.country
        many    == self.attempt_count > 2
        extra   == Min2(25, (self.attempt_count - 1) * 6)
        reused  == IF self.device_fingerprint # "" THEN ReuseCount(self, db) ELSE 0
        lowdoc  == self.doc_authenticity_score <= 60
        risk    == 10 + (IF geo THEN 18 ELSE 0)
                      + (IF many THEN extra ELSE 0)
                      + (IF reused # 0 THEN 22 ELSE 0)
                      + (IF lowdoc THEN 14 ELSE 0)
        signals == (IF geo THEN <<"IP geolocation differs from claimed country">> ELSE <<>>)
                   \o (IF many
                       THEN <<Str(self.attempt_count) \o " capture attempts in session">>
                       ELSE <<>>)
                   \o (IF reused # 0
                       THEN <<"Device fingerprint seen in " \o Str(reused) \o " other case(s)">>
                       ELSE <<>>)
                   \o (IF lowdoc THEN <<"Low document security score">> ELSE <<>>)
    IN  [risk |-> Min2(risk, 100), signals |-> signals]

evaluate_fraud(self, db) ==
    LET geo     == /\ self.ip_country # ""
                   /\ self.country # ""
                   /\ self.ip_country # self.country
        many    == self.attempt_count > 2
        extra   == Min2(25, (self.attempt_count - 1) * 6)
        reused  == IF self.device_fingerprint # "" THEN ReuseCount(self, db) ELSE 0
        lowdoc  == self.doc_authenticity_score < 60
        risk    == 10 + (IF geo THEN 18 ELSE 0)
                      + (IF many THEN extra ELSE 0)
                      + (IF reused # 0 THEN 22 ELSE 0)
                      + (IF lowdoc THEN 14 ELSE 0)
        signals == (IF geo THEN <<"IP geolocation differs from claimed country">> ELSE <<>>)
                   \o (IF many
                       THEN <<Str(self.attempt_count) \o " capture attempts in session">>
                       ELSE <<>>)
                   \o (IF reused # 0
                       THEN <<"Device fingerprint seen in " \o Str(reused) \o " other case(s)">>
                       ELSE <<>>)
                   \o (IF lowdoc THEN <<"Low document security score">> ELSE <<>>)
    IN  [risk |-> Min2(risk, 100), signals |-> signals]

PEP_TOKENS ==
    { <<"m","i","n","i","s","t","e","r">>, <<"s","e","n","a","t","o","r">>,
      <<"m","p">>, <<"c","o","u","n","c","i","l">> }

ADVERSE_TLDS ==
    { <<".","r","u">>, <<".","c","n">>, <<".","i","r">>, <<".","k","p">> }

evaluate_aml(self) ==
    LET lowered_name  == Lower(self.full_name)
        lowered_email == Lower(self.email)
        pep       == \E token \in PEP_TOKENS : Contains(lowered_name, token)
        sanctions == EndsWith(self.document_number, <<"9","9","9">>)
        adverse   == \E tld \in ADVERSE_TLDS : EndsWith(lowered_email, tld)
        notes     == (IF pep THEN <<"Potential PEP keyword in name">> ELSE <<>>)
                     \o (IF sanctions
                         THEN <<"Document number pattern seen on sanctions list sample">>
                         ELSE <<>>)
                     \o (IF adverse
                         THEN <<"Email TLD flagged for adverse media screening">>
                         ELSE <<>>)
    IN  [pep |-> pep, sanctions |-> sanctions, adverse_media |-> adverse, notes |-> notes]

evaluate_age(self, now) ==
    LET age == now.year - self.date_of_birth.year
               - (IF MonthDayLT(now, self.date_of_birth) THEN 1 ELSE 0)
    IN  [age |-> age, ok |-> age >= 18]

-----------------------------------------------------------------------------
(* The decision resolver. *)

\* Faulty variant of ResolveStatus: the threshold branch is tested before the
\* sanctions branch.
ResolveStatus_ThresholdsFirst(self) ==
    IF \/ self.doc_authenticity_score < 55
       \/ self.face_match_score < 60
       \/ ~self.liveness_passed
    THEN STATUS_REVIEW
    ELSE IF GetTruthy(self.aml_findings, "sanctions") THEN STATUS_REJECTED
    ELSE IF self.fraud_risk_score >= 45 THEN STATUS_REVIEW
    ELSE STATUS_APPROVED

\* Faulty variant of ResolveStatus: the sanctions branch is missing.
ResolveStatus_NoSanctions(self) ==
    IF \/ self.doc_authenticity_score < 55
       \/ self.face_match_score < 60
       \/ ~self.liveness_passed
    THEN STATUS_REVIEW
    ELSE IF self.fraud_risk_score >= 45 THEN STATUS_REVIEW
    ELSE STATUS_APPROVED

\* Faulty variant of ResolveStatus: a failed age check sends the case to review.
ResolveStatus_AgeGate(self) ==
    IF GetTruthy(self.aml_findings, "sanctions") THEN STATUS_REJECTED
    ELSE IF \/ self.doc_authenticity_score < 55
            \/ self.face_match_score < 60
            \/ ~self.liveness_passed
         THEN STATUS_REVIEW
    ELSE IF self.fraud_risk_score >= 45 THEN STATUS_REVIEW
    ELSE IF ~self.age_verified THEN STATUS_REVIEW
    ELSE STATUS_APPROVED

\* The if/elif chain of run_full_evaluation over the fields just written.
ResolveStatus(self) ==
    IF GetTruthy(self.aml_findings, "sanctions") THEN STATUS_REJECTED
    ELSE IF \/ self.doc_authenticity_score < 55
            \/ self.face_match_score < 60
            \/ ~self.liveness_passed
         THEN STATUS_REVIEW
    ELSE IF self.fraud_risk_score >= 45 THEN STATUS_REVIEW
    ELSE STATUS_APPROVED

\* Faulty variant of RiskSummary: the fixed sentence is missing.
RiskSummary_NoAllClear(reasons) == Join("; ", reasons)

\* "; ".join(reasons) if reasons else the fixed sentence
RiskSummary(reasons) ==
    IF Len(reasons) > 0 THEN Join("; ", reasons)
    ELSE "All signals within acceptable ranges"

\* run_full_evaluation statement by statement.  A frame holds the instance
\* (self) and the locals of the call; each operator is one statement, reading
\* the frame as the statements before it left it.
EnterEvaluation(self) ==
    [ self |-> self, doc_flags |-> <<>>, biometric_notes |-> <<>>,
      fraud_signals |-> <<>>, age |-> 0, age_ok |-> FALSE, reasons |-> <<>> ]

AssignDocument(f, now) ==
    LET r == evaluate_document(f.self, now)
    IN  [f EXCEPT !.self.doc_authenticity_score = r.score, !.doc_flags = r.flags]

AssignBiometrics(f) ==
    LET r == evaluate_biometrics(f.self)
    IN  [f EXCEPT !.self.face_match_score = r.face_match,
                  !.self.liveness_passed = r.liveness_passed,
                  !.biometric_notes = r.reasons]

AssignFraud(f, db) ==
    LET r == evaluate_fraud(f.self, db)
    IN  [f EXCEPT !.self.fraud_risk_score = r.risk,
                  !.self.fraud_signals = r.signals,
                  !.fraud_signals = r.signals]

AssignAml(f) == [f EXCEPT !.self.aml_findings = evaluate_aml(f.self)]

AssignAge(f, now) ==
    LET r == evaluate_age(f.self, now)
    IN  [f EXCEPT !.self.age_verified = r.ok, !.age = r.age, !.age_ok = r.ok]

CollectReasons(f) ==
    LET aml_hits == SelectKeys(<<"pep", "sanctions", "adverse_media">>, f.self.aml_findings)
    IN  [f EXCEPT !.reasons =
            f.doc_flags \o f.biometric_notes \o f.fraud_signals
            \o (IF Len(aml_hits) > 0
                THEN <<"AML flags: " \o Join(", ", aml_hits)>>
                ELSE <<>>)
            \o (IF ~f.age_ok
                THEN <<"Age " \o Str(f.age) \o " under threshold">>
                ELSE <<>>)]

AssignStatus(f) == [f EXCEPT !.self.status = ResolveStatus(f.self)]

AssignRiskSummary(f) == [f EXCEPT !.self.risk_summary = RiskSummary(f.reasons)]

\* Faulty variant of EvaluationFrame: evaluate_fraud runs before the document
\* score is assigned, so it reads the score of the previous run.
EvaluationFrame_FraudFirst(self, db, now) ==
    AssignRiskSummary(AssignStatus(CollectReasons(AssignAge(AssignAml(
        AssignBiometrics(AssignDocument(AssignFraud(EnterEvaluation(self), db), now))),
        now))))

\* The statements of run_full_evaluation up to "if save", in order.
EvaluationFrame(self, db, now) ==
    AssignRiskSummary(AssignStatus(CollectReasons(AssignAge(AssignAml(
        AssignFraud(AssignBiometrics(AssignDocument(EnterEvaluation(self), now)), db)),
        now))))

\* run_full_evaluation when the reuse query inside evaluate_fraud raises: the
\* statements before the call to evaluate_fraud have assigned their fields on
\* the instance, the exception leaves the method (there is no try), and no
\* later statement runs.
EvaluationFrameRaised(self, now) ==
    AssignBiometrics(AssignDocument(EnterEvaluation(self), now))

\* "if save: self.save()" and the return statement, on the frame f the
\* statements before them left.
LeaveEvaluation(f, db, do_save) ==
    [ self   |-> IF do_save THEN save(f.self, db).self ELSE f.self,
      db     |-> IF do_save THEN save(f.self, db).db ELSE db,
      result |-> [ age             |-> f.age,
                   doc_flags       |-> f.doc_flags,
                   biometric_notes |-> f.biometric_notes,
                   fraud_signals   |-> f.fraud_signals,
                   reasons         |-> f.reasons ] ]

\* run_full_evaluation(save): the instance after the call (self), the table
\* after it (db) and the returned dict (result).
run_full_evaluation(self, db, now, do_save) ==
    LeaveEvaluation(EvaluationFrame(self, db, now), db, do_save)

-----------------------------------------------------------------------------
(* The policy simulator. *)

\* The conditions of the six ifs of simulate_decision, in source order.
FailedChecks(case, thresholds) ==
    << GetTruthy(case.aml_findings, "sanctions"),
       thresholds.enforce_liveness /\ ~case.liveness_passed,
       case.doc_authenticity_score < thresholds.min_doc_score,
       case.face_match_score < thresholds.min_face_match,
       case.fraud_risk_score >= thresholds.fraud_review_cutoff,
       ~case.age_verified >>

\* Faulty variant of SimulatedDecision: the decision only escalates, so a
\* sanctions hit stays rejected whatever fails after it.
SimulatedDecision_Escalating(case, thresholds) ==
    LET c == FailedChecks(case, thresholds)
    IN  IF c[1] THEN STATUS_REJECTED
        ELSE IF c[2] \/ c[3] \/ c[4] \/ c[5] \/ c[6] THEN STATUS_REVIEW
        ELSE STATUS_APPROVED

\* The variable decision of simulate_decision: d0 as initialised, dk as the
\* k-th if leaves it.
SimulatedDecision(case, thresholds) ==
    LET c  == FailedChecks(case, thresholds)
        d0 == STATUS_APPROVED
        d1 == IF c[1] THEN STATUS_REJECTED ELSE d0
        d2 == IF c[2] THEN STATUS_REVIEW ELSE d1
        d3 == IF c[3] THEN STATUS_REVIEW ELSE d2
        d4 == IF c[4] THEN STATUS_REVIEW ELSE d3
        d5 == IF c[5] THEN STATUS_REVIEW ELSE d4
        d6 == IF c[6] THEN STATUS_REVIEW ELSE d5
    IN  d6

\* The list reasons of simulate_decision: what each if appends.
SimulatedReasons(case, thresholds) ==
    LET c == FailedChecks(case, thresholds)
    IN  (IF c[1] THEN <<"Sanctions hit">> ELSE <<>>)
        \o (IF c[2] THEN <<"Liveness required but not passed">> ELSE <<>>)
        \o (IF c[3]
            THEN <<"Doc authenticity below " \o Str(thresholds.min_doc_score)>>
            ELSE <<>>)
        \o (IF c[4]
            THEN <<"Face match below " \o Str(thresholds.min_face_match)>>
            ELSE <<>>)
        \o (IF c[5]
            THEN <<"Fraud score above " \o Str(thresholds.fraud_review_cutoff)>>
            ELSE <<>>)
        \o (IF c[6] THEN <<"Age under threshold">> ELSE <<>>)

\* reasons or ["All signals within thresholds"]
ReasonsOrAllClear(reasons) ==
    IF Len(reasons) > 0 THEN reasons ELSE <<"All signals within thresholds">>

\* simulate_decision: the returned dict; "case" is the instance it was given,
\* which no statement of the function assigns to.
simulate_decision(case, thresholds) ==
    [ decision   |-> SimulatedDecision(case, thresholds),
      reasons    |-> ReasonsOrAllClear(SimulatedReasons(case, thresholds)),
      case       |-> case,
      thresholds |-> thresholds ]

-----------------------------------------------------------------------------
(* Forms. *)

\* Faulty variant of VerificationCaseForm_is_valid: clean() adds no error.
VerificationCaseForm_is_valid_NoClean(payload) == TRUE

\* VerificationCaseForm.is_valid(): clean() rejects attempt_count < 1.
VerificationCaseForm_is_valid(payload) == ~(payload.attempt_count < 1)

\* Faulty variant of REVIEW_DECISIONS: the form offers every STATUS_CHOICES value.
REVIEW_DECISIONS_WithPending == STATUS_CHOICES

\* The choices of ReviewDecisionForm.decision.
REVIEW_DECISIONS == {STATUS_APPROVED, STATUS_REJECTED, STATUS_REVIEW}

\* ReviewDecisionForm.is_valid(): decision is one of the choices; reviewer name
\* and notes are optional.
ReviewDecisionForm_is_valid(decision) == decision \in REVIEW_DECISIONS

\* RiskTuningForm.is_valid(): an existing case and thresholds in 0..100.
RiskTuningForm_is_valid(pk, thresholds, db) ==
    /\ pk \in DOMAIN db
    /\ thresholds.min_doc_score \in 0..100
    /\ thresholds.min_face_match \in 0..100
    /\ thresholds.fraud_review_cutoff \in 0..100

-----------------------------------------------------------------------------
(* Reviewer decisions and the audit trail. *)

EVENT_CREATED == "created"
EVENT_REVIEW  == "reviewed"
EVENT_RERUN   == "rerun"

\* case.log_event(event_type, description): one AuditEvent row for the case.
log_event(case, event_type, description, events) ==
    Append(events, [case |-> case.pk, event_type |-> event_type,
                    description |-> description])

\* case.mark_review(decision, reviewer_name, notes): the decision and the
\* reviewer fields are written and the row saved; no evaluator runs.
mark_review(self, db, now, decision, reviewer_name, notes) ==
    save([self EXCEPT !.status = decision,
                      !.reviewer_name = reviewer_name,
                      !.reviewer_notes = notes,
                      !.reviewed_at = now], db)

\* get_status_display(): the label of STATUS_CHOICES.
get_status_display(self) ==
    CASE self.status = STATUS_PENDING  -> "Pending"
      [] self.status = STATUS_REVIEW   -> "Needs review"
      [] self.status = STATUS_APPROVED -> "Approved"
      [] self.status = STATUS_REJECTED -> "Rejected"

-----------------------------------------------------------------------------
(* Inputs. *)

DOC_OK               == <<"P","1","2","3","4","5","6","7">>
DOC_SHORT            == <<"P","1">>
DOC_SANCTIONED       == <<"A","B","C","9","9","9">>
DOC_SHORT_SANCTIONED == <<"X","9","9","9">>

NAME_PLAIN == <<"A","n","n">>
NAME_PEP   == <<"K","E","M","P">>

EMAIL_PLAIN   == <<"a","@","b",".","e","e">>
EMAIL_ADVERSE == <<"a","@","b",".","R","U">>

\* The initial values of RiskTuningForm's threshold fields.
DefaultThresholds ==
    [ min_doc_score |-> 55, min_face_match |-> 60,
      fraud_review_cutoff |-> 45, enforce_liveness |-> TRUE ]

\* What the risk-tuning form may submit to the running service.
TuningInputs ==
    { DefaultThresholds,
      [ min_doc_score |-> 95, min_face_match |-> 60,
        fraud_review_cutoff |-> 45, enforce_liveness |-> FALSE ] }

\* The thresholds the simulator is explored over.
EvalThresholds ==
    [ min_doc_score       : {55, 95},
      min_face_match      : {60},
      fraud_review_cutoff : {45},
      enforce_liveness    : BOOLEAN ]

\* What the intake form may submit to the running service: three valid
\* payloads and one with attempt_count = 0.
IntakeBase ==
    [ full_name |-> NAME_PLAIN, email |-> EMAIL_PLAIN, country |-> "Estonia",
      issuing_country |-> "Estonia", document_number |-> DOC_OK,
      date_of_birth |-> Date(1990, 1, 1), doc_expiry |-> Date(2026, 3, 10),
      ip_country |-> "Estonia", device_fingerprint |-> "",
      attempt_count |-> 1, selfie_quality |-> 80 ]

IntakePayloads ==
    { IntakeBase,
      [IntakeBase EXCEPT !.device_fingerprint = "fp-123"],
      [IntakeBase EXCEPT !.device_fingerprint = "fp-123",
                         !.document_number = DOC_SANCTIONED],
      [IntakeBase EXCEPT !.attempt_count = 0] }

\* What a reviewer may submit.
ReviewInputs ==
    [ decision       : STATUS_CHOICES,
      reviewer_name  : {"Reviewer"},
      reviewer_notes : {"Looks good"} ]

\* The declared attributes the evaluators are explored over.
EvalPayloads ==
    [ full_name          : {NAME_PLAIN, NAME_PEP},
      email              : {EMAIL_PLAIN, EMAIL_ADVERSE},
      country            : {"Estonia"},
      issuing_country    : {"Estonia", "Spain"},
      document_number    : {DOC_OK, DOC_SHORT, DOC_SANCTIONED, DOC_SHORT_SANCTIONED},
      date_of_birth      : {Date(1990, 1, 1), Date(2008, 3, 9), Date(2008, 3, 10)},
      doc_expiry         : {Date(2025, 12, 31), Date(2026, 3, 9), Date(2027, 3, 9)},
      ip_country         : {"", "Estonia", "Spain"},
      device_fingerprint : {"", "fp-123"},
      attempt_count      : 1..MaxAttempts,
      selfie_quality     : {0, 38, 55, 80, 120} ]

-----------------------------------------------------------------------------
(* The views. *)

NoObj     == <<>>
NoPreview == <<>>

\* The tail of start_verification's valid branch: case.save(), then
\* log_event, on the result ev of run_full_evaluation(save=False).
SaveCreated(stored) ==
    /\ cases' = stored.db
    /\ audit' = log_event(stored.self, EVENT_CREATED,
                    "Verification case created via onboarding flow", audit)
    /\ obj' = stored.self

\* start_verification, POST.
start_verification(payload) ==
    /\ IF VerificationCaseForm_is_valid(payload)
       THEN /\ Len(audit) < MaxEvents
            /\ SaveCreated(save(
                   run_full_evaluation(NewCase(payload), cases, today, FALSE).self,
                   cases))
            /\ op' = "start_verification"
       ELSE /\ UNCHANGED <<cases, audit>>
            /\ obj' = NoObj
            /\ op' = "start_verification_invalid"
    /\ preview' = NoPreview
    /\ UNCHANGED <<today, inflight>>

\* Faulty variant of LogRerun: the evaluation is saved but no event is logged.
LogRerun_NoEvent(ev) ==
    /\ cases' = ev.db
    /\ audit' = audit
    /\ obj' = ev.self

\* The tail of rerun_case: log_event on the result ev of run_full_evaluation().
LogRerun(ev) ==
    /\ cases' = ev.db
    /\ audit' = log_event(ev.self, EVENT_RERUN, "Verification checks re-run", audit)
    /\ obj' = ev.self

\* rerun_case, POST.
rerun_case(pk) ==
    /\ pk \in DOMAIN cases
    /\ Len(audit) < MaxEvents
    /\ LogRerun(run_full_evaluation(cases[pk], cases, today, TRUE))
    /\ op' = "rerun_case"
    /\ preview' = NoPreview
    /\ UNCHANGED <<today, inflight>>

\* Faulty variant of LogReview: the evaluators run again after the decision.
LogReview_Reevaluating(done) ==
    /\ cases' = run_full_evaluation(done.self, done.db, today, TRUE).db
    /\ audit' = log_event(done.self, EVENT_REVIEW,
                    "Manual decision: " \o get_status_display(done.self), audit)
    /\ obj' = done.self

\* The tail of review_case's valid branch: log_event on the result of mark_review.
LogReview(done) ==
    /\ cases' = done.db
    /\ audit' = log_event(done.self, EVENT_REVIEW,
                    "Manual decision: " \o get_status_display(done.self), audit)
    /\ obj' = done.self

\* review_case, POST.
review_case(pk, form) ==
    /\ pk \in DOMAIN cases
    /\ IF ReviewDecisionForm_is_valid(form.decision)
       THEN /\ Len(audit) < MaxEvents
            /\ LogReview(mark_review(cases[pk], cases, today, form.decision,
                                     form.reviewer_name, form.reviewer_notes))
            /\ op' = "review_case"
       ELSE /\ UNCHANGED <<cases, audit>>
            /\ obj' = NoObj
            /\ op' = "review_case_invalid"
    /\ preview' = NoPreview
    /\ UNCHANGED <<today, inflight>>

\* start_verification, POST with a valid form, when the reuse query raises
\* inside run_full_evaluation(save=False): the exception leaves the view
\* before case.save() and log_event; raised is the frame at the raise.
StartRaised(raised) ==
    /\ obj' = raised.self
    /\ op' = "start_verification_raised"
    /\ preview' = NoPreview
    /\ UNCHANGED <<cases, audit, today, inflight>>

start_verification_raised(payload) ==
    /\ VerificationCaseForm_is_valid(payload)
    /\ payload.device_fingerprint # ""
    /\ StartRaised(EvaluationFrameRaised(NewCase(payload), today))

\* rerun_case, POST, when the reuse query raises inside run_full_evaluation():
\* the exception leaves the view before self.save() and log_event.
RerunRaised(raised) ==
    /\ obj' = raised.self
    /\ op' = "rerun_case_raised"
    /\ preview' = NoPreview
    /\ UNCHANGED <<cases, audit, today, inflight>>

rerun_case_raised(pk) ==
    /\ pk \in DOMAIN cases
    /\ cases[pk].device_fingerprint # ""
    /\ RerunRaised(EvaluationFrameRaised(cases[pk], today))

\* Faulty variant of PREVIEW_SAVE: the preview evaluation is saved.
PREVIEW_SAVE_Saving == TRUE

\* The save argument risk_tuning passes to run_full_evaluation.
PREVIEW_SAVE == FALSE

\* The render of risk_tuning's valid branch: the table as the request leaves
\* it and the preview res, whose "case" is the instance the view held.
RenderPreview(db, res) ==
    /\ cases' = db
    /\ preview' = res
    /\ obj' = res.case

\* simulate_decision on the instance run_full_evaluation left (ev.self).
PreviewEvaluated(ev, thresholds) ==
    RenderPreview(ev.db, simulate_decision(ev.self, thresholds))

\* risk_tuning, POST with a valid form.
risk_tuning(pk, thresholds) ==
    /\ RiskTuningForm_is_valid(pk, thresholds, cases)
    /\ PreviewEvaluated(run_full_evaluation(cases[pk], cases, today, PREVIEW_SAVE),
                        thresholds)
    /\ op' = "risk_tuning"
    /\ UNCHANGED <<audit, today, inflight>>

\* Midnight: date.today() moves on.
Tick ==
    /\ today.day < FirstDay.day + MaxTicks
    /\ today' = [today EXCEPT !.day = @ + 1]
    /\ op' = "tick"
    /\ obj' = NoObj
    /\ preview' = NoPreview
    /\ UNCHANGED <<cases, audit, inflight>>

Init ==
    /\ cases = <<>>
    /\ audit = <<>>
    /\ today = FirstDay
    /\ op = "none"
    /\ obj = NoObj
    /\ preview = NoPreview
    /\ inflight = <<>>

Next ==
    \/ \E payload \in IntakePayloads : start_verification(payload)
    \/ \E pk \in DOMAIN cases : rerun_case(pk)
    \/ \E pk \in DOMAIN cases, form \in ReviewInputs : review_case(pk, form)
    \/ \E pk \in DOMAIN cases, thresholds \in TuningInputs : risk_tuning(pk, thresholds)
    \/ Tick

Spec == Init /\ [][Next]_vars

\* The service when the database may fail: the same requests, and the two
\* views that evaluate failing at the reuse query.
NextRaising ==
    \/ Next
    \/ \E payload \in IntakePayloads : start_verification_raised(payload)
    \/ \E pk \in DOMAIN cases : rerun_case_raised(pk)

SpecRaising == Init /\ [][NextRaising]_vars

-----------------------------------------------------------------------------
(* The engine on its own: one instance constructed from declared attributes, *)
(* evaluated without saving, then previewed under thresholds.                *)

\* The store an instance is evaluated against: empty, or holding one case
\* created through start_verification with fingerprint "fp-123".
SeedPayload ==
    [ full_name |-> NAME_PLAIN, email |-> EMAIL_PLAIN, country |-> "Estonia",
      issuing_country |-> "Estonia", document_number |-> DOC_OK,
      date_of_birth |-> Date(1990, 1, 1), doc_expiry |-> Date(2027, 3, 9),
      ip_country |-> "Estonia", device_fingerprint |-> "fp-123",
      attempt_count |-> 1, selfie_quality |-> 80 ]

SeededStore ==
    LET stored == save(run_full_evaluation(NewCase(SeedPayload), <<>>, FirstDay, FALSE).self,
                       <<>>)
    IN  [ cases |-> stored.db,
          audit |-> log_event(stored.self, EVENT_CREATED,
                        "Verification case created via onboarding flow", <<>>) ]

InitEval ==
    /\ \E store \in {[cases |-> <<>>, audit |-> <<>>], SeededStore} :
          cases = store.cases /\ audit = store.audit
    /\ today = FirstDay
    /\ op = "construct"
    /\ \E payload \in EvalPayloads :
          /\ obj = NewCase(payload)
          /\ payload.device_fingerprint = "" => cases = <<>>
    /\ preview = NoPreview
    /\ inflight = <<>>

\* case.run_full_evaluation(save=False) on the constructed instance.
Evaluate ==
    /\ op = "construct"
    /\ obj' = run_full_evaluation(obj, cases, today, FALSE).self
    /\ op' = "evaluate"
    /\ UNCHANGED <<cases, audit, today, preview, inflight>>

\* simulate_decision(case, thresholds) on the evaluated instance.
Simulate(thresholds) ==
    /\ op = "evaluate"
    /\ preview' = simulate_decision(obj, thresholds)
    /\ obj' = preview'.case
    /\ op' = "simulate"
    /\ UNCHANGED <<cases, audit, today, inflight>>

NextEval ==
    \/ Evaluate
    \/ \E thresholds \in EvalThresholds : Simulate(thresholds)

SpecEval == InitEval /\ [][NextEval]_vars

-----------------------------------------------------------------------------
(* Two requests for the same stored case served at once.  Each worker runs  *)
(* its view as the sequential code does; the workers interleave at the      *)
(* database calls: the SELECT of get_object_or_404, the UPDATE of save()    *)
(* and the INSERT of log_event.  The views open no transaction and take no  *)
(* lock, so every interleaving of those calls is possible.                  *)

ConcurrentRequests == {1, 2}

\* What the two clients may POST for case 1.
ConcurrentInputs ==
    { [view |-> "rerun_case", pk |-> 1, form |-> <<>>] }
    \cup { [view |-> "review_case", pk |-> 1, form |-> form] : form \in ReviewInputs }

\* get_object_or_404(VerificationCase, pk=pk): the worker's own instance.
Load(r) ==
    /\ inflight[r].pc = "load"
    /\ inflight' = [inflight EXCEPT
                      ![r].case = cases[inflight[r].pk],
                      ![r].pc = CASE inflight[r].view = "rerun_case" -> "evaluate"
                                  [] ReviewDecisionForm_is_valid(inflight[r].form.decision)
                                        -> "mark_review"
                                  [] OTHER -> "done"]
    /\ UNCHANGED <<cases, audit, today, op, obj, preview>>

\* rerun_case: case.run_full_evaluation() up to "if save", on the instance.
RerunEvaluate(r) ==
    /\ inflight[r].pc = "evaluate"
    /\ inflight' = [inflight EXCEPT
                      ![r].case = EvaluationFrame(inflight[r].case, cases, today).self,
                      ![r].pc = "save"]
    /\ UNCHANGED <<cases, audit, today, op, obj, preview>>

\* rerun_case: self.save() inside run_full_evaluation writes every field of
\* the instance to the row.
RerunSave(r) ==
    /\ inflight[r].pc = "save"
    /\ cases' = save(inflight[r].case, cases).db
    /\ inflight' = [inflight EXCEPT ![r].pc = "log_rerun"]
    /\ UNCHANGED <<audit, today, op, obj, preview>>

\* rerun_case: case.log_event(EVENT_RERUN, ...), then the redirect.
RerunLog(r) ==
    /\ inflight[r].pc = "log_rerun"
    /\ audit' = log_event(inflight[r].case, EVENT_RERUN, "Verification checks re-run", audit)
    /\ inflight' = [inflight EXCEPT ![r].pc = "done"]
    /\ UNCHANGED <<cases, today, op, obj, preview>>

\* review_case: case.mark_review(...) on the instance, saving it; done is its
\* result.
ReviewMarked(r, done) ==
    /\ cases' = done.db
    /\ inflight' = [inflight EXCEPT ![r].case = done.self, ![r].pc = "log_review"]
    /\ UNCHANGED <<audit, today, op, obj, preview>>

ReviewMark(r) ==
    /\ inflight[r].pc = "mark_review"
    /\ ReviewMarked(r, mark_review(inflight[r].case, cases, today,
                                   inflight[r].form.decision,
                                   inflight[r].form.reviewer_name,
                                   inflight[r].form.reviewer_notes))

\* review_case: case.log_event(EVENT_REVIEW, ...), then the redirect.
ReviewLog(r) ==
    /\ inflight[r].pc = "log_review"
    /\ audit' = log_event(inflight[r].case, EVENT_REVIEW,
                    "Manual decision: " \o get_status_display(inflight[r].case), audit)
    /\ inflight' = [inflight EXCEPT ![r].pc = "done"]
    /\ UNCHANGED <<cases, today, op, obj, preview>>

\* One stored case, created through start_verification, and two requests for
\* it about to be served.
InitConc ==
    /\ cases = SeededStore.cases
    /\ audit = SeededStore.audit
    /\ today = FirstDay
    /\ op = "none"
    /\ obj = NoObj
    /\ preview = NoPreview
    /\ inflight \in [ConcurrentRequests ->
                        { [view |-> i.view, pk |-> i.pk, form |-> i.form,
                           pc |-> "load", case |-> NoObj] : i \in ConcurrentInputs }]

NextConc ==
    \/ \E r \in ConcurrentRequests : Load(r)
    \/ \E r \in ConcurrentRequests : RerunEvaluate(r)
    \/ \E r \in ConcurrentRequests : RerunSave(r)
    \/ \E r \in ConcurrentRequests : RerunLog(r)
    \/ \E r \in ConcurrentRequests : ReviewMark(r)
    \/ \E r \in ConcurrentRequests : ReviewLog(r)

SpecConc == InitConc /\ [][NextConc]_vars

\* The table after request req has been served alone against table db: the
\* whole view, as rerun_case and review_case run it.
ServedAlone(req, db) ==
    CASE req.view = "rerun_case"
            -> run_full_evaluation(db[req.pk], db, today, TRUE).db
      [] req.view = "review_case" /\ ReviewDecisionForm_is_valid(req.form.decision)
            -> mark_review(db[req.pk], db, today, req.form.decision,
                           req.form.reviewer_name, req.form.reviewer_notes).db
      [] OTHER -> db

-----------------------------------------------------------------------------
(* Several start_verification requests served at once.  Each worker builds  *)
(* its instance from the valid form, evaluates it (the reuse query reads    *)
(* the rows saved so far), saves it (INSERT) and logs the creation; the     *)
(* workers interleave at those database calls.                              *)

ConcurrentCreations == {1, 2, 3}

\* What the clients may POST: the test payload with one of two fingerprints.
CreationPayloads ==
    { [IntakeBase EXCEPT !.device_fingerprint = "fp-123"],
      [IntakeBase EXCEPT !.device_fingerprint = "fp-456"] }

\* form.is_valid() and form.save(commit=False): the request is in flight and
\* holds an unsaved instance.
CreateBegin(r) ==
    /\ inflight[r].pc = "idle"
    /\ VerificationCaseForm_is_valid(inflight[r].form)
    /\ inflight' = [inflight EXCEPT ![r].case = NewCase(inflight[r].form),
                                    ![r].pc = "evaluate"]
    /\ UNCHANGED <<cases, audit, today, op, obj, preview>>

\* case.run_full_evaluation(save=False): the reuse query sees the table as it
\* is now.
CreateEvaluate(r) ==
    /\ inflight[r].pc = "evaluate"
    /\ inflight' = [inflight EXCEPT
                      ![r].case = run_full_evaluation(inflight[r].case, cases,
                                                      today, FALSE).self,
                      ![r].pc = "save"]
    /\ UNCHANGED <<cases, audit, today, op, obj, preview>>

\* case.save(): the INSERT; stored is its result.
CreateSaved(r, stored) ==
    /\ cases' = stored.db
    /\ inflight' = [inflight EXCEPT ![r].case = stored.self, ![r].pc = "log_created"]
    /\ UNCHANGED <<audit, today, op, obj, preview>>

CreateSave(r) ==
    /\ inflight[r].pc = "save"
    /\ CreateSaved(r, save(inflight[r].case, cases))

\* case.log_event(EVENT_CREATED, ...), then the redirect.
CreateLog(r) ==
    /\ inflight[r].pc = "log_created"
    /\ audit' = log_event(inflight[r].case, EVENT_CREATED,
                    "Verification case created via onboarding flow", audit)
    /\ inflight' = [inflight EXCEPT ![r].pc = "done"]
    /\ UNCHANGED <<cases, today, op, obj, preview>>

InitCreate ==
    /\ cases = <<>>
    /\ audit = <<>>
    /\ today = FirstDay
    /\ op = "none"
    /\ obj = NoObj
    /\ preview = NoPreview
    /\ inflight \in [ConcurrentCreations ->
                        { [view |-> "start_verification", form |-> payload,
                           pc |-> "idle", case |-> NoObj] : payload \in CreationPayloads }]

NextCreate ==
    \/ \E r \in ConcurrentCreations : CreateBegin(r)
    \/ \E r \in ConcurrentCreations : CreateEvaluate(r)
    \/ \E r \in ConcurrentCreations : CreateSave(r)
    \/ \E r \in ConcurrentCreations : CreateLog(r)

SpecCreate == InitCreate /\ [][NextCreate]_vars

-----------------------------------------------------------------------------
(* Properties.  Those about the engine alone are stated of SpecEval, where    *)
(* op = "evaluate" marks an instance run_full_evaluation has just left and    *)
(* op = "simulate" one simulate_decision has just previewed; those about      *)
(* stored cases are stated of Spec.                                           *)

Range(seq) == { seq[i] : i \in DOMAIN seq }

\* The handlers of Spec that leave in obj an instance run_full_evaluation has
\* just evaluated against the store as it still is.
EvaluatingViews == {"start_verification", "rerun_case", "risk_tuning"}

\* C1: for every case, whatever its other attributes and scores, when
\* evaluate_aml sets sanctions (the document number ends with "999"),
\* run_full_evaluation leaves status = rejected.
C1_SanctionsRejected ==
    op = "evaluate" =>
        /\ obj.aml_findings.sanctions = EndsWith(obj.document_number, <<"9","9","9">>)
        /\ obj.aml_findings.sanctions => obj.status = STATUS_REJECTED

\* A sanctioned case every other signal of which would send it to review.
C1_Witness ==
    /\ op = "evaluate"
    /\ obj.aml_findings.sanctions
    /\ obj.doc_authenticity_score < 55
    /\ obj.face_match_score < 60
    /\ ~obj.liveness_passed
    /\ obj.fraud_risk_score >= 45
    /\ obj.status = STATUS_REJECTED

\* C2 as stated: in every reachable state every stored case with
\* aml_findings.sanctions has status rejected, reviewer decisions included.
C2_Original ==
    \A pk \in DOMAIN cases :
        GetTruthy(cases[pk].aml_findings, "sanctions")
            => cases[pk].status = STATUS_REJECTED

\* C2 amended: a stored case with aml_findings.sanctions has status rejected
\* unless a reviewer decision was recorded for it; creation and rerun always
\* leave it rejected.
C2_SanctionedUnlessReviewed ==
    \A pk \in DOMAIN cases :
        (GetTruthy(cases[pk].aml_findings, "sanctions")
         /\ cases[pk].status # STATUS_REJECTED)
            => /\ cases[pk].reviewed_at # NoDate
               /\ ~(op \in {"start_verification", "rerun_case"} /\ obj.pk = pk)

\* A reviewer has just approved a sanctioned case.
C2_Witness ==
    /\ op = "review_case"
    /\ GetTruthy(obj.aml_findings, "sanctions")
    /\ cases[obj.pk].status = STATUS_APPROVED
    /\ cases[obj.pk].reviewed_at # NoDate

\* C3: the status run_full_evaluation writes is the first match of the chain
\* sanctions -> rejected; doc score < 55 or face match < 60 or liveness failed
\* -> needs_review; fraud score >= 45 -> needs_review; else approved; nothing
\* else (age, PEP, adverse media) enters.  Scenario A: document "P1234567" not
\* expired, residence = issuing country, selfie quality 80, first attempt,
\* fingerprint unused: score 92, liveness passed, approved.
C3_PriorityChain ==
    op = "evaluate" =>
        /\ obj.status =
              CASE obj.aml_findings.sanctions -> STATUS_REJECTED
                [] /\ ~obj.aml_findings.sanctions
                   /\ \/ obj.doc_authenticity_score < 55
                      \/ obj.face_match_score < 60
                      \/ ~obj.liveness_passed -> STATUS_REVIEW
                [] /\ ~obj.aml_findings.sanctions
                   /\ obj.doc_authenticity_score >= 55
                   /\ obj.face_match_score >= 60
                   /\ obj.liveness_passed
                   /\ obj.fraud_risk_score >= 45 -> STATUS_REVIEW
                [] OTHER -> STATUS_APPROVED
        /\ ( /\ obj.document_number = DOC_OK
             /\ ~DateLE(obj.doc_expiry, today)
             /\ obj.country = obj.issuing_country
             /\ obj.selfie_quality = 80
             /\ obj.attempt_count = 1
             /\ cases = <<>> )
           => /\ obj.doc_authenticity_score = 92
              /\ obj.liveness_passed
              /\ obj.status = STATUS_APPROVED

\* An under-age case with PEP and adverse-media flags that is approved.
C3_Witness ==
    /\ op = "evaluate"
    /\ ~obj.age_verified
    /\ obj.aml_findings.pep
    /\ obj.aml_findings.adverse_media
    /\ obj.status = STATUS_APPROVED

\* C4: after run_full_evaluation the document and fraud scores are in 0..100
\* and the face-match score is in 30..100 (here for every explored case, the
\* well-formed ones and those with selfie_quality above 100).
C4_ScoreRanges ==
    op = "evaluate" =>
        /\ obj.doc_authenticity_score \in 0..100
        /\ obj.fraud_risk_score \in 0..100
        /\ obj.face_match_score \in 30..100

\* A well-formed case whose weighted sum lies below the floor: the clamp acted.
C4_Witness ==
    /\ op = "evaluate"
    /\ obj.attempt_count >= 1
    /\ obj.selfie_quality \in 0..100
    /\ IntBase(obj.selfie_quality, obj.doc_authenticity_score) < 30
    /\ obj.face_match_score = 30

\* C5: with declared attributes, date and the other stored cases unchanged, a
\* second run_full_evaluation right after a first yields the derived fields
\* the first one wrote, whatever the first one started from.
C5_Idempotent ==
    /\ op \in {"start_verification", "rerun_case"}
          => Derived(run_full_evaluation(obj, cases, today, TRUE).self) = Derived(obj)
    /\ op = "risk_tuning"
          => Derived(run_full_evaluation(obj, cases, today, FALSE).self) = Derived(obj)

\* Case 1 was created alone, case 2 then took its fingerprint, and case 1 has
\* just been rerun: that run started from stale fields and added the penalty.
C5_Witness ==
    /\ op = "rerun_case"
    /\ obj.pk = 1
    /\ Len(cases) = 2
    /\ obj.device_fingerprint # ""
    /\ cases[2].device_fingerprint = obj.device_fingerprint
    /\ Len(audit) = 3
    /\ audit[2].event_type = EVENT_CREATED
    /\ audit[3].event_type = EVENT_RERUN
    /\ obj.fraud_risk_score = 32

\* C6: simulate_decision changes no field of the case it is given, and a
\* risk-tuning preview leaves the stored cases as they were and appends no
\* AuditEvent.
C6_PreviewReadOnly ==
    [][ op' = "risk_tuning" =>
            /\ cases' = cases
            /\ audit' = audit
            /\ preview'.case = run_full_evaluation(cases[obj'.pk], cases, today, FALSE).self
            /\ obj' = preview'.case ]_vars

\* A preview of a case whose stored fields are stale: the instance previewed
\* differs from the row, and the row is what it was.
C6_Witness ==
    /\ op = "risk_tuning"
    /\ preview.case = obj
    /\ Derived(obj) # Derived(cases[obj.pk])

\* C7: simulate_decision starts from approved and lets each failing check, in
\* the order sanctions, liveness (if enforced), doc score, face match, fraud
\* score, age, overwrite the decision and append its reason: needs_review
\* whenever one of the five later checks fails, rejected only when sanctions
\* alone fails, approved with the one reason "All signals within thresholds"
\* when none fails.
C7_SequentialOverwrite ==
    op = "simulate" =>
        LET th        == preview.thresholds
            sanctions == obj.aml_findings.sanctions
            liveness  == th.enforce_liveness /\ ~obj.liveness_passed
            doc       == obj.doc_authenticity_score < th.min_doc_score
            face      == obj.face_match_score < th.min_face_match
            fraud     == obj.fraud_risk_score >= th.fraud_review_cutoff
            age       == ~obj.age_verified
            later     == liveness \/ doc \/ face \/ fraud \/ age
            fired     == (IF sanctions THEN <<"Sanctions hit">> ELSE <<>>)
                         \o (IF liveness THEN <<"Liveness required but not passed">> ELSE <<>>)
                         \o (IF doc
                             THEN <<"Doc authenticity below " \o Str(th.min_doc_score)>>
                             ELSE <<>>)
                         \o (IF face
                             THEN <<"Face match below " \o Str(th.min_face_match)>>
                             ELSE <<>>)
                         \o (IF fraud
                             THEN <<"Fraud score above " \o Str(th.fraud_review_cutoff)>>
                             ELSE <<>>)
                         \o (IF age THEN <<"Age under threshold">> ELSE <<>>)
        IN  /\ later => preview.decision = STATUS_REVIEW
            /\ (sanctions /\ ~later) => preview.decision = STATUS_REJECTED
            /\ (~sanctions /\ ~later)
                  => /\ preview.decision = STATUS_APPROVED
                     /\ preview.reasons = <<"All signals within thresholds">>
            /\ (sanctions \/ later) => preview.reasons = fired

\* A sanctioned case previewed as needs_review because a later check failed.
C7_Witness ==
    /\ op = "simulate"
    /\ obj.aml_findings.sanctions
    /\ ~obj.age_verified
    /\ preview.reasons[1] = "Sanctions hit"
    /\ preview.decision = STATUS_REVIEW

\* C8: for every freshly evaluated case, simulate_decision under the default
\* thresholds (55, 60, 45, liveness enforced) returns the status
\* run_full_evaluation assigned.
C8_SimulatorReplaysResolver ==
    (op = "simulate" /\ preview.thresholds = DefaultThresholds)
        => preview.decision = obj.status

\* C9: status is one of the four values, and no stored case is pending: not as
\* start_verification stores it, not after any rerun_case or review_case.
C9_StoredNeverPending ==
    \A pk \in DOMAIN cases :
        cases[pk].status \in {STATUS_REVIEW, STATUS_APPROVED, STATUS_REJECTED}

\* A case that was reviewed and has just been rerun.
C9_Witness ==
    /\ op = "rerun_case"
    /\ cases[obj.pk].reviewed_at # NoDate
    /\ cases[obj.pk].status \in {STATUS_REVIEW, STATUS_APPROVED, STATUS_REJECTED}

\* The reuse signal evaluate_fraud appends for a count of n.
ReuseSignal(n) == "Device fingerprint seen in " \o Str(n) \o " other case(s)"

\* C10: evaluate_fraud adds the 22 points and the reuse signal exactly when the
\* fingerprint is non-empty and another stored case has it; the count in the
\* signal is the number of those other cases, the case itself never among
\* them.
C10_ReusePenalty ==
    op \in EvaluatingViews =>
        LET others    == { k \in DOMAIN cases :
                             /\ k # obj.pk
                             /\ cases[k].device_fingerprint = obj.device_fingerprint }
            n         == Cardinality(others)
            penalised == obj.device_fingerprint # "" /\ n >= 1
            rest      == 10
                         + (IF /\ obj.ip_country # "" /\ obj.country # ""
                               /\ obj.ip_country # obj.country
                            THEN 18 ELSE 0)
                         + (IF obj.attempt_count > 2
                            THEN Min2(25, (obj.attempt_count - 1) * 6) ELSE 0)
                         + (IF obj.doc_authenticity_score < 60 THEN 14 ELSE 0)
        IN  /\ obj.fraud_risk_score = rest + (IF penalised THEN 22 ELSE 0)
            /\ \A m \in 0..(Len(cases) + 1) :
                   ReuseSignal(m) \in Range(obj.fraud_signals) <=> (penalised /\ m = n)

\* The second of two cases sharing a fingerprint has just been created and
\* reports one other case.
C10_Witness ==
    /\ op = "start_verification"
    /\ obj.pk = 2
    /\ obj.device_fingerprint # ""
    /\ cases[1].device_fingerprint = obj.device_fingerprint
    /\ ReuseSignal(1) \in Range(obj.fraud_signals)
    /\ obj.fraud_risk_score = 32

\* The only stored case with its fingerprint has just been rerun: no penalty.
C10_WitnessRerunAlone ==
    /\ op = "rerun_case"
    /\ Len(cases) = 1
    /\ obj.device_fingerprint # ""
    /\ obj.fraud_signals = <<>>

\* The number of AuditEvents of case pk.
EventsOf(events, pk) ==
    Cardinality({ i \in DOMAIN events : events[i].case = pk })

\* The event type each logging view appends.
EventTypeOf(view) ==
    CASE view = "start_verification" -> EVENT_CREATED
      [] view = "rerun_case"         -> EVENT_RERUN
      [] view = "review_case"        -> EVENT_REVIEW

\* C11: each successful start_verification, each rerun_case POST and each
\* review_case POST with a valid form appends exactly one AuditEvent, for the
\* case it handled and of type created, rerun, reviewed respectively; the
\* earlier events stay as they were, and no step lowers the number of events
\* of any case.
C11_OneEventPerOperation ==
    [][ /\ op' \in {"start_verification", "rerun_case", "review_case"}
           => /\ Len(audit') = Len(audit) + 1
              /\ SubSeq(audit', 1, Len(audit)) = audit
              /\ audit'[Len(audit')].case = obj'.pk
              /\ audit'[Len(audit')].event_type = EventTypeOf(op')
              /\ obj'.pk \in DOMAIN cases'
        /\ \A pk \in DOMAIN cases' :
              EventsOf(audit', pk) >= EventsOf(audit, pk) ]_vars

\* One case created, reviewed and rerun: three events, one per operation.
C11_Witness ==
    /\ Len(audit) = 3
    /\ \A i \in 1..3 : audit[i].case = 1
    /\ audit[1].event_type = EVENT_CREATED
    /\ audit[2].event_type = EVENT_REVIEW
    /\ audit[3].event_type = EVENT_RERUN
    /\ op = "rerun_case"

\* C12: a review decision through review_case sets the stored status to the
\* submitted decision, records the reviewer's name and notes and a reviewed_at
\* not earlier than the call, and runs no evaluator: scores, liveness, fraud
\* signals, AML findings, age_verified and risk_summary of the case, and the
\* other cases, are what they were.
C12_ReviewSetsDecisionOnly ==
    [][ op' = "review_case" =>
          /\ obj'.pk \in DOMAIN cases
          /\ obj' = cases'[obj'.pk]
          /\ \E form \in ReviewInputs :
                /\ form.decision \in {STATUS_APPROVED, STATUS_REJECTED, STATUS_REVIEW}
                /\ cases' = [cases EXCEPT ![obj'.pk] =
                                [@ EXCEPT !.status = form.decision,
                                          !.reviewer_name = form.reviewer_name,
                                          !.reviewer_notes = form.reviewer_notes,
                                          !.reviewed_at = obj'.reviewed_at]]
          /\ DateLE(today, obj'.reviewed_at)
          /\ obj'.reviewed_at # NoDate ]_vars

\* A reviewer has just rejected a case the evaluators approve: the status is
\* the decision and the risk summary is the evaluation's.
C12_Witness ==
    /\ op = "review_case"
    /\ obj.status = STATUS_REJECTED
    /\ ~GetTruthy(obj.aml_findings, "sanctions")
    /\ run_full_evaluation(obj, cases, today, FALSE).self.status = STATUS_APPROVED
    /\ obj.risk_summary = "All signals within acceptable ranges"
    /\ obj.reviewer_name = "Reviewer"
    /\ obj.reviewed_at = today

\* C13: a start_verification POST with attempt_count < 1 stores no case and
\* appends no AuditEvent, and binds no evaluated instance; a POST that does
\* store a case stores the submitted attempt_count, which is at least 1, so
\* no stored case holds a clamped or an invalid value.
C13_InvalidIntakeRejected ==
    [][ /\ op' = "start_verification_invalid"
           => /\ cases' = cases
              /\ audit' = audit
              /\ obj' = NoObj
        /\ op' = "start_verification"
           => /\ Len(cases') = Len(cases) + 1
              /\ obj' = cases'[Len(cases')]
              /\ \E payload \in IntakePayloads :
                    /\ ~(payload.attempt_count < 1)
                    /\ obj'.attempt_count = payload.attempt_count
        /\ \A pk \in DOMAIN cases' : cases'[pk].attempt_count >= 1 ]_vars

\* An intake with attempt_count = 0 has just been refused by a service that
\* already stores cases.
C13_Witness ==
    /\ op = "start_verification_invalid"
    /\ obj = NoObj
    /\ Len(cases) >= 1
    /\ Len(audit) = Len(cases)
    /\ \E payload \in IntakePayloads : payload.attempt_count < 1

\* C14: when the fingerprint-reuse lookup raises inside run_full_evaluation,
\* the derived fields of the case the call was made on are either all the
\* values of a completed evaluation or all the values from before the call
\* (the stored row for a rerun, the field defaults for a new case).
C14_AllOrNothing ==
    /\ op = "rerun_case_raised"
          => \/ Derived(obj) = Derived(cases[obj.pk])
             \/ Derived(obj) = Derived(run_full_evaluation(cases[obj.pk], cases, today, FALSE).self)
    /\ op = "start_verification_raised"
          => \/ Derived(obj) = Derived(NewCase(IntakeBase))
             \/ Derived(obj) = Derived(run_full_evaluation(obj, cases, today, FALSE).self)

\* What does hold when the lookup raises: no stored row changes and no
\* AuditEvent is appended.
RaiseLeavesStore ==
    [][ op' \in {"rerun_case_raised", "start_verification_raised"}
            => cases' = cases /\ audit' = audit ]_vars

\* C15: when two requests among rerun_case and review_case for one case have
\* both finished, however their steps interleaved, the stored cases are what
\* serving the two one after the other, in one of the two orders, leaves.
C15_Serializable ==
    (\A r \in ConcurrentRequests : inflight[r].pc = "done")
        => \/ cases = ServedAlone(inflight[2], ServedAlone(inflight[1], SeededStore.cases))
           \/ cases = ServedAlone(inflight[1], ServedAlone(inflight[2], SeededStore.cases))

\* What does hold: both requests' AuditEvents are in the log.
BothLogged ==
    (\A r \in ConcurrentRequests : inflight[r].pc = "done")
        => Len(audit) = Len(SeededStore.audit)
               + Cardinality({ r \in ConcurrentRequests :
                     \/ inflight[r].view = "rerun_case"
                     \/ ReviewDecisionForm_is_valid(inflight[r].form.decision) })

\* C16: with every other attribute, the document score and the store fixed,
\* the risk evaluate_fraud returns does not decrease when attempt_count goes
\* up by one, from 1 up to 5 (and up to the largest count explored).
C16_AttemptsMonotone ==
    (op = "evaluate" /\ obj.attempt_count < MaxAttempts)
        => /\ evaluate_fraud(obj, cases).risk = obj.fraud_risk_score
           /\ evaluate_fraud([obj EXCEPT !.attempt_count = @ + 1], cases).risk
                 >= obj.fraud_risk_score

\* A case evaluated at its second attempt whose third attempt would add 12,
\* on top of a fingerprint and a geolocation penalty.
C16_Witness ==
    /\ op = "evaluate"
    /\ obj.attempt_count = 2
    /\ obj.fraud_risk_score = 10 + 18 + 22
    /\ evaluate_fraud([obj EXCEPT !.attempt_count = 3], cases).risk
          = obj.fraud_risk_score + 12

\* No evaluator reported anything about the evaluated instance c: no document
\* deduction, liveness passed, face match at least 65, no fraud signal, no AML
\* hit, age verified.
NothingFired(c) ==
    /\ c.doc_authenticity_score = 92
    /\ c.liveness_passed
    /\ c.face_match_score >= 65
    /\ c.fraud_signals = <<>>
    /\ ~c.aml_findings.pep
    /\ ~c.aml_findings.sanctions
    /\ ~c.aml_findings.adverse_media
    /\ c.age_verified

\* C17: after run_full_evaluation risk_summary is never empty; it is the
\* sentence "All signals within acceptable ranges" exactly when no reason
\* fired, and otherwise the reasons of the run joined with "; ".
C17_RiskSummaryNonEmpty ==
    op = "evaluate" =>
        LET reasons == run_full_evaluation(obj, cases, today, FALSE).result.reasons
        IN  /\ obj.risk_summary # ""
            /\ NothingFired(obj) <=> reasons = <<>>
            /\ NothingFired(obj)
                  <=> obj.risk_summary = "All signals within acceptable ranges"
            /\ ~NothingFired(obj) => obj.risk_summary = Join("; ", reasons)

\* An evaluation with three reasons, joined in the order they fired.
C17_Witness ==
    /\ op = "evaluate"
    /\ obj.risk_summary =
          "Document expired; Low document security score; AML flags: pep, sanctions"

\* An evaluation where nothing fired.
C17_WitnessAllClear ==
    /\ op = "evaluate"
    /\ NothingFired(obj)
    /\ obj.risk_summary = "All signals within acceptable ranges"

\* C19: evaluate_document returns 92, minus 22 when the document number has
\* fewer than 6 characters, minus 35 when the expiry date is today or earlier,
\* minus 10 when declared and issuing country are both non-empty and differ;
\* the deductions add up and each one that fired reports its reason, in that
\* order.  An expired document with a too-short number and matching countries
\* scores 35, reports "Document expired" and, unless sanctioned, ends in
\* needs_review.
C19_DocumentDeductions ==
    op = "evaluate" =>
        LET short    == Len(obj.document_number) <= 5
            expired  == \/ obj.doc_expiry = today
                        \/ obj.doc_expiry.year < today.year
                        \/ /\ obj.doc_expiry.year = today.year
                           /\ \/ obj.doc_expiry.month < today.month
                              \/ /\ obj.doc_expiry.month = today.month
                                 /\ obj.doc_expiry.day < today.day
            mismatch == /\ obj.country # "" /\ obj.issuing_country # ""
                        /\ obj.country # obj.issuing_country
            flags    == run_full_evaluation(obj, cases, today, FALSE).result.doc_flags
        IN  /\ obj.doc_authenticity_score
                  = 92 - (IF short THEN 22 ELSE 0) - (IF expired THEN 35 ELSE 0)
                       - (IF mismatch THEN 10 ELSE 0)
            /\ Len(flags) = Cardinality({ b \in {<<1, short>>, <<2, expired>>,
                                                 <<3, mismatch>>} : b[2] })
            /\ short <=> "Document number is shorter than expected" \in Range(flags)
            /\ expired <=> "Document expired" \in Range(flags)
            /\ mismatch <=> "Residence country differs from issuing country" \in Range(flags)
            /\ (short /\ expired /\ mismatch)
                  => flags = << "Document number is shorter than expected",
                                "Document expired",
                                "Residence country differs from issuing country" >>
            /\ (short /\ expired /\ ~mismatch)
                  => /\ obj.doc_authenticity_score = 35
                     /\ ~obj.aml_findings.sanctions => obj.status = STATUS_REVIEW

\* A document with a too-short number that expires today: both deductions.
C19_Witness ==
    /\ op = "evaluate"
    /\ obj.document_number = DOC_SHORT
    /\ obj.doc_expiry = today
    /\ obj.country = obj.issuing_country
    /\ obj.doc_authenticity_score = 35
    /\ obj.status = STATUS_REVIEW

\* All three deductions at once: 92 - 22 - 35 - 10.
C19_WitnessAllThree ==
    /\ op = "evaluate"
    /\ obj.doc_authenticity_score = 25
    /\ obj.doc_expiry.year < today.year

\* C20 as stated: for selfie_quality and document score in 0..100 the
\* face-match score is clamp(round(0.6 selfie_quality + 0.4 doc_score), 30,
\* 100), rounding to the nearest integer (tenths never tie), doc_score being
\* the document score of the same run.
C20_Original ==
    (op = "evaluate" /\ obj.selfie_quality \in 0..100)
        => obj.face_match_score
              = Max2(30, Min2((6 * obj.selfie_quality
                               + 4 * obj.doc_authenticity_score + 5) \div 10, 100))

\* C20 amended: the face-match score is the weighted sum 0.6 selfie_quality +
\* 0.4 doc_score truncated to its integer part (not rounded), then clamped to
\* 30..100, doc_score being the document score computed in the same run.
C20_FaceMatchTruncates ==
    op = "evaluate" =>
        LET tenths == 6 * obj.selfie_quality + 4 * obj.doc_authenticity_score
            whole  == CHOOSE n \in 0..200 : 10 * n <= tenths /\ tenths < 10 * (n + 1)
        IN  /\ obj.doc_authenticity_score
                  = run_full_evaluation(obj, cases, today, FALSE).self.doc_authenticity_score
            /\ obj.face_match_score
                  = (IF whole < 30 THEN 30 ELSE IF whole > 100 THEN 100 ELSE whole)

\* Selfie quality 80 with document score 92: the sum is 84.8 and the
\* face-match score 84.
C20_Witness ==
    /\ op = "evaluate"
    /\ obj.selfie_quality = 80
    /\ obj.doc_authenticity_score = 92
    /\ obj.face_match_score = 84

\* The attempts term of the fraud score, count by count, and its signal.
AttemptsTerm(attempt_count) ==
    CASE attempt_count <= 2 -> 0
      [] attempt_count = 3  -> 12
      [] attempt_count = 4  -> 18
      [] attempt_count = 5  -> 24
      [] OTHER              -> 25

AttemptsSignal(attempt_count) ==
    CASE attempt_count = 3 -> "3 capture attempts in session"
      [] attempt_count = 4 -> "4 capture attempts in session"
      [] attempt_count = 5 -> "5 capture attempts in session"
      [] attempt_count = 6 -> "6 capture attempts in session"
      [] attempt_count = 7 -> "7 capture attempts in session"
      [] OTHER             -> "more capture attempts in session"

\* C21: the fraud score run_full_evaluation stores is min(100, 10 + 18 when IP
\* country and declared country are both non-empty and differ + the attempts
\* term when attempt_count > 2 + 22 when another case has the fingerprint + 14
\* when the document score is below 60); fraud_signals holds one signal per
\* term that fired, in that order; the score is never below 10.
C21_FraudScoreFormula ==
    op = "evaluate" =>
        LET geo    == obj.ip_country # "" /\ obj.country # ""
                      /\ ~(obj.ip_country = obj.country)
            many   == obj.attempt_count >= 3
            others == Cardinality({ k \in DOMAIN cases :
                          k # obj.pk /\ obj.device_fingerprint # ""
                          /\ cases[k].device_fingerprint = obj.device_fingerprint })
            low    == obj.doc_authenticity_score <= 59
            sum    == 10 + (IF geo THEN 18 ELSE 0) + AttemptsTerm(obj.attempt_count)
                         + (IF others >= 1 THEN 22 ELSE 0) + (IF low THEN 14 ELSE 0)
        IN  /\ obj.fraud_risk_score = (IF sum > 100 THEN 100 ELSE sum)
            /\ obj.fraud_risk_score >= 10
            /\ obj.fraud_signals =
                  (IF geo THEN <<"IP geolocation differs from claimed country">> ELSE <<>>)
                  \o (IF many THEN <<AttemptsSignal(obj.attempt_count)>> ELSE <<>>)
                  \o (IF others >= 1
                      THEN <<"Device fingerprint seen in 1 other case(s)">> ELSE <<>>)
                  \o (IF low THEN <<"Low document security score">> ELSE <<>>)
            /\ others <= 1

\* Every term at once: 10 + 18 + 25 + 22 + 14 = 89, four signals.
C21_Witness ==
    /\ op = "evaluate"
    /\ obj.fraud_risk_score = 89
    /\ Len(obj.fraud_signals) = 4

\* The boundary of the document term: a score of exactly 60 adds nothing.
C21_WitnessBoundary ==
    /\ op = "evaluate"
    /\ obj.doc_authenticity_score = 60
    /\ obj.fraud_risk_score = 10

\* The reuse count the evaluation of instance c saw, read off its signal.
SeenCount(c) ==
    IF \E n \in 1..Cardinality(ConcurrentCreations) : ReuseSignal(n) \in Range(c.fraud_signals)
    THEN CHOOSE n \in 1..Cardinality(ConcurrentCreations) :
             ReuseSignal(n) \in Range(c.fraud_signals)
    ELSE 0

\* C22: when creations sharing a fingerprint are served at once, the reuse
\* count an evaluation sees is never above the number of other cases with the
\* fingerprint (saved, or evaluated and about to be saved) and is below it by
\* at most the number of other creations in flight at that moment; an
\* evaluation that runs when another case with the fingerprint is saved gets
\* the reuse penalty.
C22_UndercountBounded ==
    [][ \A r \in ConcurrentCreations :
          (inflight[r].pc = "evaluate" /\ inflight'[r].pc = "save") =>
            LET fp      == inflight[r].form.device_fingerprint
                saved   == Cardinality({ k \in DOMAIN cases :
                               cases[k].device_fingerprint = fp })
                unsaved == Cardinality({ q \in ConcurrentCreations \ {r} :
                               /\ inflight[q].pc = "save"
                               /\ inflight[q].form.device_fingerprint = fp })
                flying  == Cardinality({ q \in ConcurrentCreations \ {r} :
                               inflight[q].pc \in {"evaluate", "save"} })
                seen    == SeenCount(inflight'[r].case)
            IN  /\ seen <= saved + unsaved
                /\ seen >= saved + unsaved - flying
                /\ saved >= 1 => /\ seen >= 1
                                 /\ inflight'[r].case.fraud_risk_score = 10 + 22 ]_vars

\* The race: two cases with one fingerprint are both stored and neither was
\* given the penalty, each evaluated while the other was unsaved.
C22_Witness ==
    /\ \A r \in ConcurrentCreations : inflight[r].pc = "done"
    /\ \E j, k \in DOMAIN cases :
          /\ j # k
          /\ cases[j].device_fingerprint = cases[k].device_fingerprint
          /\ cases[j].fraud_signals = <<>>
          /\ cases[k].fraud_signals = <<>>

\* No race: the third of three cases with one fingerprint, evaluated after
\* the other two were saved, reports two.
C22_WitnessAfterSave ==
    /\ Len(cases) = 3
    /\ ReuseSignal(2) \in Range(cases[3].fraud_signals)

=============================================================================
